---- MODULE Spec2Model ----
(***************************************************************************)
(* In-memory pub/sub broker: topic registry, topics with a subscriber map, *)
(* ring buffer and publish counter, subscribers with a bounded channel,    *)
(* the WebSocket session handler and the subscriber writer goroutines.     *)
(* Every goroutine is a task; a task's steps are the points at which       *)
(* another goroutine can observe or change shared state.                   *)
(***************************************************************************)
EXTENDS Integers, Sequences, FiniteSets, TLC

\* ---------------------------------------------------------------- bounds
MaxSubs == 2                \* Subscriber objects ever created
MaxMsgs == 2                \* publish requests ever accepted by GetTopic
MaxTopicObjs == 1           \* Topic objects ever created
subscriberQueueSize == 1    \* capacity of Subscriber.send (100 by default)
RingSize == 2               \* capacity of Topic.history (100 in CreateTopic)
MaxAdds == 5                \* Adds to a ring buffer exercised on its own

Sess == {1, 2}              \* WebSocket sessions (one wsHandler each)
ClientIds == {"c1", "c2"}   \* client_id values of requests
TopicNames == {"t"}         \* topic names of requests
LastNs == {0, 2}            \* last_n values of subscribe requests

Subs == 1..MaxSubs
TopicObjs == 1..MaxTopicObjs
Msgs == 1..MaxMsgs
NoSub == 0
NoTopic == 0
NoMsg == 0

\* ----------------------------------------------------------------- tasks
SessTask(s) == <<"sess", s>>
WriterTask(i) == <<"wr", i>>
RestTask == <<"rest", 0>>
ShutTask == <<"shut", 0>>
NoTask == <<"none", 0>>
Tasks == {SessTask(s) : s \in Sess} \cup {WriterTask(i) : i \in Subs}
           \cup {RestTask, ShutTask}

VARIABLES
  topics,        \* TopicsManager.topics: name -> Topic object (NoTopic: absent)
  ntopics,       \* Topic objects allocated so far
  tmW, tmR,      \* TopicsManager.mu: writer task, set of reader tasks
  subscribers,   \* Topic.subscribers: object -> client_id -> Subscriber
  history,       \* Topic.history: object -> [data, next, full]
  msgCount,      \* Topic.msgCount
  muW, muR,      \* Topic.mu: writer task, set of reader tasks
  nsubs,         \* Subscriber objects allocated so far
  subId,         \* Subscriber.id
  subConn,       \* Subscriber.conn: the session whose socket it writes to
  send,          \* Subscriber.send: buffered channel contents
  sendClosed,    \* close(s.send) has run
  closed,        \* Subscriber.closed: close(s.closed) has run
  connOpen,      \* the session's socket is usable (neither side closed it)
  stalled,       \* the peer has stopped reading: socket writes block
  ctxDone,       \* the session's ctx is cancelled
  pc,            \* position of every task
  cpc,           \* position of a task inside Subscriber.Close ("none": not in it)
  ctarget,       \* the Subscriber a task is closing
  loc,           \* locals of a session's request in progress
  rloc,          \* locals of the REST handler's registry call in progress
  hloc,          \* locals of the shutdown task's CloseAll* call
  wmsg,          \* the message a writer loop has received and is writing
  fault,         \* the run-time panic a task raised, if any
  crashed,       \* the process died (panic outside a handler, fatal error)
  nmsgs,         \* messages handed to publishToTopic so far
  appended,      \* history of RingBuffer.Add calls per Topic object
  enq,           \* history of successful sends on Subscriber.send: <<msg, kind>>
  written,       \* history of event frames a writer loop wrote
  drained,       \* CloseGracefully has received from this Subscriber's channel
  errFrame,      \* a SLOW_CONSUMER error frame write was attempted for it
  restResult     \* what the last registry call of the REST handler returned

regVars == <<topics, ntopics, tmR>>
topicData == <<subscribers, history, msgCount>>
subIdent == <<nsubs, subId, subConn>>
chanVars == <<send, sendClosed, closed>>
sockVars == <<connOpen, stalled>>
locals == <<loc, rloc, hloc, wmsg>>
failVars == <<fault, crashed>>
histVars == <<nmsgs, appended, enq, written, drained, errFrame,
              restResult>>
vars == <<regVars, tmW, topicData, muW, muR, subIdent, chanVars, sockVars, ctxDone,
          pc, cpc, ctarget, locals, failVars, histVars>>

\* ----------------------------------------------------------- ring buffer
\* NewRingBuffer(size)
NewRingBuffer == [data |-> [i \in 0..(RingSize - 1) |-> NoMsg], next |-> 0, full |-> FALSE]

\* RingBuffer.Add without "if r.next == 0 { r.full = true }"
AddNeverFull(r, m) ==
  [data |-> [r.data EXCEPT ![r.next] = m],
   next |-> (r.next + 1) % RingSize,
   full |-> r.full]

\* RingBuffer.Add
Add(r, m) ==
  LET nx == (r.next + 1) % RingSize IN
  [data |-> [r.data EXCEPT ![r.next] = m],
   next |-> nx,
   full |-> IF nx = 0 THEN TRUE ELSE r.full]

\* RingBuffer.LastN
LastN(r, n) ==
  IF n <= 0 \/ RingSize = 0 THEN <<>>
  ELSE IF ~r.full
    THEN LET k == IF n > r.next THEN r.next ELSE n IN
         [i \in 1..k |-> r.data[r.next - k + i - 1]]
    ELSE LET k == IF n > RingSize THEN RingSize ELSE n
             start == (r.next - k + RingSize) % RingSize IN
         [i \in 1..k |-> r.data[(start + i - 1) % RingSize]]

\* --------------------------------------------------------------- helpers
NoLoc == [t |-> NoTopic, cid |-> "c1", lastN |-> 0, sub |-> NoSub, m |-> NoMsg,
          rq |-> <<>>, visited |-> {}, cur |-> NoSub, cnt |-> 0, atStart |-> {},
          full |-> {},
          reply |-> "none"]
NoRLoc == [n |-> "t", t |-> NoTopic, visited |-> {}, todo |-> {}]
NoHLoc == [todo |-> {}, t |-> NoTopic, visited |-> {}, cur |-> NoSub]

\* keys of a Topic's subscriber map
Keys(o) == {c \in ClientIds : subscribers[o][c] # NoSub}
\* values of a Topic's subscriber map
Members(o) == {subscribers[o][c] : c \in Keys(o)}

\* sync.RWMutex: Lock / RLock can be taken
CanLock(w, r) == w = NoTask /\ r = {}
CanRLock(w) == w = NoTask

\* conn.Write: blocks while the peer does not read, fails on a closed socket
WriteBlocks(s) == connOpen[s] /\ stalled[s]
WriteOk(s) == connOpen[s] /\ ~stalled[s]

Init ==
  /\ topics = [n \in TopicNames |-> NoTopic]
  /\ ntopics = 0
  /\ tmW = NoTask /\ tmR = {}
  /\ subscribers = [o \in TopicObjs |-> [c \in ClientIds |-> NoSub]]
  /\ history = [o \in TopicObjs |-> NewRingBuffer]
  /\ msgCount = [o \in TopicObjs |-> 0]
  /\ muW = [o \in TopicObjs |-> NoTask]
  /\ muR = [o \in TopicObjs |-> {}]
  /\ nsubs = 0
  /\ subId = [i \in Subs |-> "c1"]
  /\ subConn = [i \in Subs |-> 1]
  /\ send = [i \in Subs |-> <<>>]
  /\ sendClosed = [i \in Subs |-> FALSE]
  /\ closed = [i \in Subs |-> FALSE]
  /\ connOpen = [s \in Sess |-> TRUE]
  /\ stalled = [s \in Sess |-> FALSE]
  /\ ctxDone = [s \in Sess |-> FALSE]
  /\ pc = [k \in Tasks |-> IF k[1] = "wr" THEN "none" ELSE "idle"]
  /\ cpc = [k \in Tasks |-> "none"]
  /\ ctarget = [k \in Tasks |-> NoSub]
  /\ loc = [s \in Sess |-> NoLoc]
  /\ rloc = NoRLoc
  /\ hloc = NoHLoc
  /\ wmsg = [i \in Subs |-> NoMsg]
  /\ fault = [k \in Tasks |-> "none"]
  /\ crashed = FALSE
  /\ nmsgs = 0
  /\ appended = [o \in TopicObjs |-> <<>>]
  /\ enq = [i \in Subs |-> <<>>]
  /\ written = [i \in Subs |-> <<>>]
  /\ drained = [i \in Subs |-> FALSE]
  /\ errFrame = [i \in Subs |-> FALSE]
  /\ restResult = "none"

\* ------------------------------------------------------- run-time panics
\* A panic in a net/http handler goroutine (wsHandler, the REST handlers) is
\* recovered by the server after the deferred calls have run: cancel() in
\* wsHandler, t.mu.RUnlock() in publishToTopic, tm.mu.Unlock() in DeleteTopic.
\* Locks released by a plain Unlock() call stay held. A panic in any other
\* goroutine (a writer loop, the shutdown caller) ends the process.
Panic(k, msg) ==
  /\ fault' = [fault EXCEPT ![k] = msg]
  /\ cpc' = [cpc EXCEPT ![k] = "none"]
  /\ ctarget' = [ctarget EXCEPT ![k] = NoSub]
  /\ IF k[1] = "sess"
       THEN /\ pc' = [pc EXCEPT ![k] = "panicked"]
            /\ ctxDone' = [ctxDone EXCEPT ![k[2]] = TRUE]
            /\ muR' = IF pc[k] \in {"pub_loop", "pub_delete"}
                        THEN [muR EXCEPT ![loc[k[2]].t] = @ \ {k}]
                        ELSE muR
            /\ UNCHANGED <<tmW, crashed>>
       ELSE IF k = RestTask
         THEN /\ pc' = [pc EXCEPT ![k] = "idle"]
              /\ tmW' = NoTask
              /\ UNCHANGED <<ctxDone, muR, crashed>>
         ELSE /\ crashed' = TRUE
              /\ UNCHANGED <<pc, ctxDone, muR, tmW>>

\* ------------------------------------------------------ Subscriber.Close
\* close(s.closed)
CloseSignal(k) ==
  /\ ~crashed
  /\ cpc[k] = "sig"
  /\ IF closed[ctarget[k]]
       THEN /\ Panic(k, "close of closed channel")
            /\ UNCHANGED closed
       ELSE /\ closed' = [closed EXCEPT ![ctarget[k]] = TRUE]
            /\ cpc' = [cpc EXCEPT ![k] = "send"]
            /\ UNCHANGED <<ctarget, pc, ctxDone, muR, tmW, failVars>>
  /\ UNCHANGED <<regVars, topicData, muW, subIdent, send, sendClosed, sockVars,
                 locals, histVars>>

\* close(s.send); s.conn.Close(StatusNormalClosure, "subscriber closed")
CloseFinish(k) ==
  /\ ~crashed
  /\ cpc[k] = "send"
  /\ sendClosed' = [sendClosed EXCEPT ![ctarget[k]] = TRUE]
  /\ connOpen' = [connOpen EXCEPT ![subConn[ctarget[k]]] = FALSE]
  /\ cpc' = [cpc EXCEPT ![k] = "none"]
  /\ ctarget' = [ctarget EXCEPT ![k] = NoSub]
  /\ UNCHANGED <<regVars, tmW, topicData, muW, muR, subIdent, send, closed, stalled,
                 ctxDone, pc, locals, failVars, histVars>>

\* a task calls s.Close() and continues at position next when it returns:
\* select { case <-s.closed: return; default: close(s.closed) ... }
CallClose(k, i, next) ==
  /\ pc' = [pc EXCEPT ![k] = next]
  /\ cpc' = [cpc EXCEPT ![k] = IF closed[i] THEN "none" ELSE "sig"]
  /\ ctarget' = [ctarget EXCEPT ![k] = IF closed[i] THEN NoSub ELSE i]

\* a reply frame is written next, then the handler reads the next request
ToReply(s, frame) ==
  /\ pc' = [pc EXCEPT ![SessTask(s)] = "reply"]
  /\ loc' = [loc EXCEPT ![s] = [NoLoc EXCEPT !.reply = frame]]

\* a task is at position p and not inside a call of Close
At(k, p) == ~crashed /\ pc[k] = p /\ cpc[k] = "none"

\* TopicsManager.GetTopic: tm.mu.RLock(); t, ok := tm.topics[name]
GetTopic(n) == topics[n]

\* ---------------------------------------------------- wsHandler: replies
\* _ = conn.Write(ctx, ServerToClient{...}) of ack / error / pong; continue
Reply(s) ==
  /\ At(SessTask(s), "reply")
  /\ ~WriteBlocks(s)
  /\ pc' = [pc EXCEPT ![SessTask(s)] = "idle"]
  /\ loc' = [loc EXCEPT ![s] = NoLoc]
  /\ UNCHANGED <<regVars, tmW, topicData, muW, muR, subIdent, chanVars, sockVars,
                 ctxDone, cpc, ctarget, rloc, hloc, wmsg, failVars, nmsgs, appended,
                 enq, written, drained, errFrame, restResult>>

\* conn.Read fails: cleanup over the (empty) subs map, conn.Close, cancel()
SessionExit(s) ==
  /\ At(SessTask(s), "idle")
  /\ ~connOpen[s]
  /\ pc' = [pc EXCEPT ![SessTask(s)] = "exited"]
  /\ ctxDone' = [ctxDone EXCEPT ![s] = TRUE]
  /\ UNCHANGED <<regVars, tmW, topicData, muW, muR, subIdent, chanVars, sockVars,
                 cpc, ctarget, locals, failVars, histVars>>

\* ---------------------------------------------- wsHandler: validation
\* request types, and the values of a request's fields ("": field absent)
ReqTypes == {"subscribe", "unsubscribe", "publish", "bogus"}
ReqTopics == TopicNames \cup {""}
ReqClientIds == {"c1", ""}

\* the request is answered BAD_REQUEST:
\* subscribe, unsubscribe: if in.Topic == "" || in.ClientID == ""
\* publish: if in.Topic == "" || in.Message == nil;  default: unknown type
Invalid(ty, n, c, hasMsg) ==
  CASE ty \in {"subscribe", "unsubscribe"} -> n = "" \/ c = ""
    [] ty = "publish" -> n = "" \/ ~hasMsg
    [] OTHER -> TRUE

\* _ = conn.Write(ctx, error BAD_REQUEST); continue
ReadBadRequest(s, ty, n, c, hasMsg) ==
  /\ At(SessTask(s), "idle")
  /\ connOpen[s]
  /\ Invalid(ty, n, c, hasMsg)
  /\ ToReply(s, "error:BAD_REQUEST")
  /\ UNCHANGED <<regVars, tmW, topicData, muW, muR, subIdent, chanVars, sockVars,
                 ctxDone, cpc, ctarget, rloc, hloc, wmsg, failVars, histVars>>

\* -------------------------------------------------- wsHandler: subscribe
\* the subscribe case creating the Subscriber and its writer before the lookup
ReadSubscribeEager(s, n, c, ln) ==
  /\ At(SessTask(s), "idle")
  /\ connOpen[s]
  /\ CanRLock(tmW)
  /\ nsubs < MaxSubs
  /\ nsubs' = nsubs + 1
  /\ subId' = [subId EXCEPT ![nsubs + 1] = c]
  /\ subConn' = [subConn EXCEPT ![nsubs + 1] = s]
  /\ IF GetTopic(n) = NoTopic
       THEN /\ pc' = [pc EXCEPT ![SessTask(s)] = "reply",
                                ![WriterTask(nsubs + 1)] = "recv"]
            /\ loc' = [loc EXCEPT ![s] = [NoLoc EXCEPT !.reply = "error:TOPIC_NOT_FOUND"]]
       ELSE /\ pc' = [pc EXCEPT ![SessTask(s)] = "sub_lock",
                                ![WriterTask(nsubs + 1)] = "recv"]
            /\ loc' = [loc EXCEPT ![s] = [NoLoc EXCEPT !.t = GetTopic(n), !.cid = c,
                                                       !.lastN = ln, !.sub = nsubs + 1]]
  /\ UNCHANGED <<regVars, tmW, topicData, muW, muR, chanVars, sockVars, ctxDone,
                 cpc, ctarget, rloc, hloc, wmsg, failVars, nmsgs, appended,
                 enq, written, drained, errFrame, restResult>>

\* case "subscribe": GetTopic, create the Subscriber, go subscriberWriteLoop
ReadSubscribe(s, n, c, ln) ==
  /\ At(SessTask(s), "idle")
  /\ connOpen[s]
  /\ CanRLock(tmW)
  /\ IF GetTopic(n) = NoTopic
       THEN /\ ToReply(s, "error:TOPIC_NOT_FOUND")
            /\ UNCHANGED <<subIdent>>
       ELSE /\ nsubs < MaxSubs
            /\ nsubs' = nsubs + 1
            /\ subId' = [subId EXCEPT ![nsubs + 1] = c]
            /\ subConn' = [subConn EXCEPT ![nsubs + 1] = s]
            /\ pc' = [pc EXCEPT ![SessTask(s)] = "sub_lock",
                                ![WriterTask(nsubs + 1)] = "recv"]
            /\ loc' = [loc EXCEPT ![s] = [NoLoc EXCEPT !.t = GetTopic(n), !.cid = c,
                                                       !.lastN = ln, !.sub = nsubs + 1]]
  /\ UNCHANGED <<regVars, tmW, topicData, muW, muR, chanVars, sockVars, ctxDone,
                 cpc, ctarget, rloc, hloc, wmsg, failVars, nmsgs, appended,
                 enq, written, drained, errFrame, restResult>>

\* the registration without "if old, ok := ...; ok { old.Close() }"
RegisterKeepOld(s) ==
  LET k == SessTask(s)
      o == loc[s].t IN
  /\ At(k, "sub_lock")
  /\ CanLock(muW[o], muR[o])
  /\ muW' = [muW EXCEPT ![o] = k]
  /\ pc' = [pc EXCEPT ![k] = "sub_assign"]
  /\ UNCHANGED <<regVars, tmW, topicData, muR, subIdent, chanVars, sockVars, ctxDone,
                 cpc, ctarget, locals, failVars, histVars>>

\* topic.mu.Lock(); if old, ok := topic.subscribers[sub.id]; ok { old.Close() }
RegisterLock(s) ==
  LET k == SessTask(s)
      o == loc[s].t
      old == subscribers[o][loc[s].cid] IN
  /\ At(k, "sub_lock")
  /\ CanLock(muW[o], muR[o])
  /\ muW' = [muW EXCEPT ![o] = k]
  /\ IF old # NoSub
       THEN CallClose(k, old, "sub_assign")
       ELSE /\ pc' = [pc EXCEPT ![k] = "sub_assign"]
            /\ UNCHANGED <<cpc, ctarget>>
  /\ UNCHANGED <<regVars, tmW, topicData, muR, subIdent, chanVars, sockVars, ctxDone,
                 locals, failVars, histVars>>

\* topic.subscribers[sub.id] = sub; topic.mu.Unlock()
RegisterAssign(s) ==
  LET k == SessTask(s)
      o == loc[s].t IN
  /\ At(k, "sub_assign")
  /\ subscribers' = [subscribers EXCEPT ![o][loc[s].cid] = loc[s].sub]
  /\ muW' = [muW EXCEPT ![o] = NoTask]
  /\ IF loc[s].lastN > 0
       THEN /\ pc' = [pc EXCEPT ![k] = "sub_replay"]
            /\ UNCHANGED loc
       ELSE ToReply(s, "ack")
  /\ UNCHANGED <<regVars, tmW, history, msgCount, muR, subIdent, chanVars, sockVars,
                 ctxDone, cpc, ctarget, rloc, hloc, wmsg, failVars, histVars>>

\* if in.LastN > 0 { for _, m := range topic.history.LastN(in.LastN) {
ReplaySnapshot(s) ==
  LET k == SessTask(s) IN
  /\ At(k, "sub_replay")
  /\ loc' = [loc EXCEPT ![s].rq = LastN(history[loc[s].t], loc[s].lastN)]
  /\ pc' = [pc EXCEPT ![k] = "sub_replay_loop"]
  /\ UNCHANGED <<regVars, tmW, topicData, muW, muR, subIdent, chanVars, sockVars,
                 ctxDone, cpc, ctarget, rloc, hloc, wmsg, failVars, histVars>>

\* select { case sub.send <- m: default: sub.CloseWithError(...) }; then the ack,
\* whose step keeps the Subscriber and whether its queue was found full
ReplayLoop(s) ==
  LET k == SessTask(s)
      i == loc[s].sub
      rq == loc[s].rq IN
  /\ At(k, "sub_replay_loop")
  /\ IF rq = <<>>
       THEN /\ pc' = [pc EXCEPT ![k] = "reply"]
            /\ loc' = [loc EXCEPT ![s] = [NoLoc EXCEPT !.reply = "ack", !.sub = i,
                                                       !.full = loc[s].full]]
            /\ UNCHANGED <<send, enq, cpc, ctarget, ctxDone, muR, tmW, failVars>>
       ELSE IF sendClosed[i]
         THEN /\ Panic(k, "send on closed channel")
              /\ UNCHANGED <<send, enq, loc>>
         ELSE IF Len(send[i]) < subscriberQueueSize
           THEN /\ send' = [send EXCEPT ![i] = Append(@, Head(rq))]
                /\ enq' = [enq EXCEPT ![i] = Append(@, <<Head(rq), "replay">>)]
                /\ loc' = [loc EXCEPT ![s].rq = Tail(rq)]
                /\ UNCHANGED <<pc, cpc, ctarget, ctxDone, muR, tmW, failVars>>
           ELSE /\ pc' = [pc EXCEPT ![k] = "sub_overflow"]
                /\ loc' = [loc EXCEPT ![s].rq = Tail(rq), ![s].full = @ \cup {i}]
                /\ UNCHANGED <<send, enq, cpc, ctarget, ctxDone, muR, tmW, failVars>>
  /\ UNCHANGED <<regVars, topicData, muW, subIdent, sendClosed, closed, sockVars,
                 rloc, hloc, wmsg, nmsgs, appended, written, drained, errFrame, restResult>>

\* Subscriber.CloseWithError: _ = s.conn.Write(context.Background(), error); s.Close()
CloseWithError(s) ==
  LET k == SessTask(s)
      i == loc[s].sub IN
  /\ At(k, "sub_overflow")
  /\ ~WriteBlocks(subConn[i])
  /\ errFrame' = [errFrame EXCEPT ![i] = TRUE]
  /\ CallClose(k, i, "sub_replay_loop")
  /\ UNCHANGED <<regVars, tmW, topicData, muW, muR, subIdent, chanVars, sockVars,
                 ctxDone, locals, failVars, nmsgs, appended, enq, written, drained,
                 restResult>>

\* ------------------------------------------------ wsHandler: unsubscribe
\* case "unsubscribe": if topic, err := globalTopics.GetTopic(in.Topic); err == nil
ReadUnsubscribe(s, n, c) ==
  LET k == SessTask(s) IN
  /\ At(k, "idle")
  /\ connOpen[s]
  /\ CanRLock(tmW)
  /\ IF GetTopic(n) = NoTopic
       THEN ToReply(s, "ack")
       ELSE /\ pc' = [pc EXCEPT ![k] = "unsub_lock"]
            /\ loc' = [loc EXCEPT ![s] = [NoLoc EXCEPT !.t = GetTopic(n), !.cid = c]]
  /\ UNCHANGED <<regVars, tmW, topicData, muW, muR, subIdent, chanVars, sockVars,
                 ctxDone, cpc, ctarget, rloc, hloc, wmsg, failVars, nmsgs, appended,
                 enq, written, drained, errFrame, restResult>>

\* topic.mu.Lock(); if sub, ok := topic.subscribers[in.ClientID]; ok { sub.Close()
UnsubscribeLock(s) ==
  LET k == SessTask(s)
      o == loc[s].t
      i == subscribers[o][loc[s].cid] IN
  /\ At(k, "unsub_lock")
  /\ CanLock(muW[o], muR[o])
  /\ IF i # NoSub
       THEN /\ muW' = [muW EXCEPT ![o] = k]
            /\ CallClose(k, i, "unsub_delete")
            /\ UNCHANGED loc
       ELSE /\ ToReply(s, "ack")
            /\ UNCHANGED <<muW, cpc, ctarget>>
  /\ UNCHANGED <<regVars, tmW, topicData, muR, subIdent, chanVars, sockVars, ctxDone,
                 rloc, hloc, wmsg, failVars, histVars>>

\* delete(topic.subscribers, in.ClientID); topic.mu.Unlock(); then the ack
UnsubscribeDelete(s) ==
  LET k == SessTask(s)
      o == loc[s].t IN
  /\ At(k, "unsub_delete")
  /\ subscribers' = [subscribers EXCEPT ![o][loc[s].cid] = NoSub]
  /\ muW' = [muW EXCEPT ![o] = NoTask]
  /\ ToReply(s, "ack")
  /\ UNCHANGED <<regVars, tmW, history, msgCount, muR, subIdent, chanVars, sockVars,
                 ctxDone, cpc, ctarget, rloc, hloc, wmsg, failVars, histVars>>

\* ---------------------------------------------------- publishToTopic
\* case "publish": publishToTopic(in.Topic, *in.Message):
\* t, err := globalTopics.GetTopic(topicName); t.history.Add(m)
ReadPublish(s, n) ==
  LET k == SessTask(s)
      o == GetTopic(n) IN
  /\ At(k, "idle")
  /\ connOpen[s]
  /\ CanRLock(tmW)
  /\ IF o = NoTopic
       THEN /\ ToReply(s, "error:TOPIC_NOT_FOUND")
            /\ UNCHANGED <<nmsgs, history, appended>>
       ELSE /\ nmsgs < MaxMsgs
            /\ nmsgs' = nmsgs + 1
            /\ history' = [history EXCEPT ![o] = Add(@, nmsgs + 1)]
            /\ appended' = [appended EXCEPT ![o] = Append(@, nmsgs + 1)]
            /\ pc' = [pc EXCEPT ![k] = "pub_rlock"]
            /\ loc' = [loc EXCEPT ![s] = [NoLoc EXCEPT !.t = o, !.m = nmsgs + 1,
                                                       !.atStart = Members(o)]]
  /\ UNCHANGED <<regVars, tmW, subscribers, msgCount, muW, muR, subIdent, chanVars,
                 sockVars, ctxDone, cpc, ctarget, rloc, hloc, wmsg, failVars, enq,
                 written, drained, errFrame, restResult>>

\* t.mu.RLock(); defer t.mu.RUnlock()
PublishRLock(s) ==
  LET k == SessTask(s)
      o == loc[s].t IN
  /\ At(k, "pub_rlock")
  /\ CanRLock(muW[o])
  /\ muR' = [muR EXCEPT ![o] = @ \cup {k}]
  /\ pc' = [pc EXCEPT ![k] = "pub_loop"]
  /\ UNCHANGED <<regVars, tmW, topicData, muW, subIdent, chanVars, sockVars, ctxDone,
                 cpc, ctarget, locals, failVars, histVars>>

\* for id, s := range t.subscribers { select { case s.send <- m: default: ... } }
\* A map range yields every key that is in the map and was not yet yielded.
FanOutNext(s, c) ==
  LET k == SessTask(s)
      o == loc[s].t
      i == subscribers[o][c] IN
  /\ At(k, "pub_loop")
  /\ c \in Keys(o) \ loc[s].visited
  /\ IF sendClosed[i]
       THEN /\ Panic(k, "send on closed channel")
            /\ UNCHANGED <<send, enq, loc>>
       ELSE IF Len(send[i]) < subscriberQueueSize
         THEN /\ send' = [send EXCEPT ![i] = Append(@, loc[s].m)]
              /\ enq' = [enq EXCEPT ![i] = Append(@, <<loc[s].m, "live">>)]
              /\ loc' = [loc EXCEPT ![s].visited = @ \cup {c}]
              /\ UNCHANGED <<pc, cpc, ctarget, ctxDone, muR, tmW, failVars>>
         ELSE /\ pc' = [pc EXCEPT ![k] = "pub_evict_write"]
              /\ loc' = [loc EXCEPT ![s].cur = i, ![s].cid = c, ![s].full = @ \cup {i}]
              /\ UNCHANGED <<send, enq, cpc, ctarget, ctxDone, muR, tmW, failVars>>
  /\ UNCHANGED <<regVars, topicData, muW, subIdent, sendClosed, closed, sockVars,
                 rloc, hloc, wmsg, nmsgs, appended, written, drained, errFrame, restResult>>

\* _ = s.conn.Write(context.Background(), error SLOW_CONSUMER); s.Close()
EvictWrite(s) ==
  LET k == SessTask(s)
      i == loc[s].cur IN
  /\ At(k, "pub_evict_write")
  /\ ~WriteBlocks(subConn[i])
  /\ errFrame' = [errFrame EXCEPT ![i] = TRUE]
  /\ CallClose(k, i, "pub_delete")
  /\ UNCHANGED <<regVars, tmW, topicData, muW, muR, subIdent, chanVars, sockVars,
                 ctxDone, locals, failVars, nmsgs, appended, enq, written, drained,
                 restResult>>

\* the eviction without its delete(t.subscribers, id): the binding stays
EvictKeepBinding(s) ==
  LET k == SessTask(s) IN
  /\ At(k, "pub_delete")
  /\ loc' = [loc EXCEPT ![s].visited = @ \cup {loc[s].cid}, ![s].cur = NoSub]
  /\ pc' = [pc EXCEPT ![k] = "pub_loop"]
  /\ UNCHANGED <<regVars, tmW, topicData, muW, muR, subIdent, chanVars,
                 sockVars, ctxDone, cpc, ctarget, rloc, hloc, wmsg, failVars, histVars>>

\* delete(t.subscribers, id), the read lock held
EvictDelete(s) ==
  LET k == SessTask(s)
      o == loc[s].t IN
  /\ At(k, "pub_delete")
  /\ subscribers' = [subscribers EXCEPT ![o][loc[s].cid] = NoSub]
  /\ loc' = [loc EXCEPT ![s].visited = @ \cup {loc[s].cid}, ![s].cur = NoSub]
  /\ pc' = [pc EXCEPT ![k] = "pub_loop"]
  /\ UNCHANGED <<regVars, tmW, history, msgCount, muW, muR, subIdent, chanVars,
                 sockVars, ctxDone, cpc, ctarget, rloc, hloc, wmsg, failVars, nmsgs,
                 appended, enq, written, drained, errFrame, restResult>>

\* The map write of delete(t.subscribers, id) while another holder of the read
\* lock ranges over or reads the map: the runtime may stop the process with
\* "fatal error: concurrent map iteration and map write".
EvictDeleteRace(s) ==
  LET k == SessTask(s)
      o == loc[s].t IN
  /\ At(k, "pub_delete")
  /\ muR[o] \ {k} # {}
  /\ crashed' = TRUE
  /\ fault' = [fault EXCEPT ![k] = "concurrent map write"]
  /\ UNCHANGED <<regVars, tmW, topicData, muW, muR, subIdent, chanVars, sockVars,
                 ctxDone, pc, cpc, ctarget, locals, histVars>>

\* the range is over: t.msgCount++ reads the counter ...
CountRead(s) ==
  LET k == SessTask(s)
      o == loc[s].t IN
  /\ At(k, "pub_loop")
  /\ Keys(o) \ loc[s].visited = {}
  /\ loc' = [loc EXCEPT ![s].cnt = msgCount[o]]
  /\ pc' = [pc EXCEPT ![k] = "pub_count"]
  /\ UNCHANGED <<regVars, tmW, topicData, muW, muR, subIdent, chanVars, sockVars,
                 ctxDone, cpc, ctarget, rloc, hloc, wmsg, failVars, histVars>>

\* ... and writes it back; return nil runs the deferred t.mu.RUnlock(), and
\* wsHandler writes the ack
CountWrite(s) ==
  LET k == SessTask(s)
      o == loc[s].t IN
  /\ At(k, "pub_count")
  /\ msgCount' = [msgCount EXCEPT ![o] = loc[s].cnt + 1]
  /\ muR' = [muR EXCEPT ![o] = @ \ {k}]
  /\ ToReply(s, "ack")
  /\ UNCHANGED <<regVars, tmW, subscribers, history, muW, subIdent, chanVars,
                 sockVars, ctxDone, cpc, ctarget, rloc, hloc, wmsg, failVars, histVars>>

\* ------------------------------------------------- subscriberWriteLoop
\* select { case <-ctx.Done(): return; case m, ok := <-sub.send: if !ok { return }
WriterDone(i) ==
  LET k == WriterTask(i) IN
  /\ At(k, "recv")
  /\ ctxDone[subConn[i]] \/ (send[i] = <<>> /\ sendClosed[i])
  /\ pc' = [pc EXCEPT ![k] = "exit"]
  /\ UNCHANGED <<regVars, tmW, topicData, muW, muR, subIdent, chanVars, sockVars,
                 ctxDone, cpc, ctarget, locals, failVars, histVars>>

WriterRecv(i) ==
  LET k == WriterTask(i) IN
  /\ At(k, "recv")
  /\ send[i] # <<>>
  /\ wmsg' = [wmsg EXCEPT ![i] = Head(send[i])]
  /\ send' = [send EXCEPT ![i] = Tail(@)]
  /\ pc' = [pc EXCEPT ![k] = "write"]
  /\ UNCHANGED <<regVars, tmW, topicData, muW, muR, subIdent, sendClosed, closed,
                 sockVars, ctxDone, cpc, ctarget, loc, rloc, hloc, failVars, histVars>>

\* err := sub.conn.Write(context.Background(), event); if err != nil { sub.Close(); return }
WriterWrite(i) ==
  LET k == WriterTask(i) IN
  /\ At(k, "write")
  /\ ~WriteBlocks(subConn[i])
  /\ wmsg' = [wmsg EXCEPT ![i] = NoMsg]
  /\ IF connOpen[subConn[i]]
       THEN /\ written' = [written EXCEPT ![i] = Append(@, wmsg[i])]
            /\ pc' = [pc EXCEPT ![k] = "recv"]
            /\ UNCHANGED <<cpc, ctarget>>
       ELSE /\ CallClose(k, i, "exit")
            /\ UNCHANGED written
  /\ UNCHANGED <<regVars, tmW, topicData, muW, muR, subIdent, chanVars, sockVars,
                 ctxDone, loc, rloc, hloc, failVars, nmsgs, appended, enq, drained,
                 errFrame, restResult>>

\* ------------------------------------------------------------ the peers
\* the client of a session stops reading from its socket
PeerStall(s) ==
  /\ ~crashed
  /\ connOpen[s] /\ ~stalled[s]
  /\ stalled' = [stalled EXCEPT ![s] = TRUE]
  /\ UNCHANGED <<regVars, tmW, topicData, muW, muR, subIdent, chanVars, connOpen,
                 ctxDone, pc, cpc, ctarget, locals, failVars, histVars>>

\* the client of a session drops the connection
PeerDisconnect(s) ==
  /\ ~crashed
  /\ connOpen[s]
  /\ connOpen' = [connOpen EXCEPT ![s] = FALSE]
  /\ UNCHANGED <<regVars, tmW, topicData, muW, muR, subIdent, chanVars, stalled,
                 ctxDone, pc, cpc, ctarget, locals, failVars, histVars>>

\* ------------------------------------------------------- TopicsManager
\* CreateTopic: tm.mu.Lock(); defer tm.mu.Unlock()
CreateTopic(n) ==
  /\ At(RestTask, "idle")
  /\ CanLock(tmW, tmR)
  /\ IF topics[n] # NoTopic
       THEN /\ restResult' = "exists"
            /\ UNCHANGED <<topics, ntopics>>
       ELSE /\ ntopics < MaxTopicObjs
            /\ ntopics' = ntopics + 1
            /\ topics' = [topics EXCEPT ![n] = ntopics + 1]
            /\ restResult' = "created"
  /\ UNCHANGED <<tmR, tmW, topicData, muW, muR, subIdent, chanVars, sockVars, ctxDone,
                 pc, cpc, ctarget, locals, failVars, nmsgs, appended, enq, written,
                 drained, errFrame>>

\* DeleteTopic: tm.mu.Lock(); defer tm.mu.Unlock(); t, ok := tm.topics[name]
DeleteTopic(n) ==
  /\ At(RestTask, "idle")
  /\ CanLock(tmW, tmR)
  /\ IF topics[n] = NoTopic
       THEN /\ restResult' = "not_found"
            /\ UNCHANGED <<tmW, pc, rloc>>
       ELSE /\ tmW' = RestTask
            /\ pc' = [pc EXCEPT ![RestTask] = "del_lock"]
            /\ rloc' = [NoRLoc EXCEPT !.n = n, !.t = topics[n]]
            /\ UNCHANGED restResult
  /\ UNCHANGED <<regVars, topicData, muW, muR, subIdent, chanVars, sockVars, ctxDone,
                 cpc, ctarget, loc, hloc, wmsg, failVars, nmsgs, appended, enq,
                 written, drained, errFrame>>

\* t.mu.Lock()
DeleteLock ==
  /\ At(RestTask, "del_lock")
  /\ CanLock(muW[rloc.t], muR[rloc.t])
  /\ muW' = [muW EXCEPT ![rloc.t] = RestTask]
  /\ pc' = [pc EXCEPT ![RestTask] = "del_loop"]
  /\ UNCHANGED <<regVars, tmW, topicData, muR, subIdent, chanVars, sockVars, ctxDone,
                 cpc, ctarget, locals, failVars, histVars>>

\* for _, sub := range t.subscribers { sub.Close() }
DeleteCloseNext(c) ==
  /\ At(RestTask, "del_loop")
  /\ c \in Keys(rloc.t) \ rloc.visited
  /\ rloc' = [rloc EXCEPT !.visited = @ \cup {c}]
  /\ CallClose(RestTask, subscribers[rloc.t][c], "del_loop")
  /\ UNCHANGED <<regVars, tmW, topicData, muW, muR, subIdent, chanVars, sockVars,
                 ctxDone, loc, hloc, wmsg, failVars, histVars>>

\* t.mu.Unlock(); delete(tm.topics, name); return nil
DeleteFinish ==
  /\ At(RestTask, "del_loop")
  /\ Keys(rloc.t) \ rloc.visited = {}
  /\ muW' = [muW EXCEPT ![rloc.t] = NoTask]
  /\ topics' = [topics EXCEPT ![rloc.n] = NoTopic]
  /\ tmW' = NoTask
  /\ pc' = [pc EXCEPT ![RestTask] = "idle"]
  /\ rloc' = NoRLoc
  /\ restResult' = "deleted"
  /\ UNCHANGED <<ntopics, tmR, topicData, muR, subIdent, chanVars, sockVars, ctxDone,
                 cpc, ctarget, loc, hloc, wmsg, failVars, nmsgs, appended, enq,
                 written, drained, errFrame>>

\* registered Topic objects
Registered == {topics[n] : n \in TopicNames} \ {NoTopic}

\* ListTopics (Health and Stats take the locks the same way): tm.mu.RLock();
\* defer tm.mu.RUnlock(); for _, t := range tm.topics
ListTopicsStart ==
  /\ At(RestTask, "idle")
  /\ CanRLock(tmW)
  /\ tmR' = tmR \cup {RestTask}
  /\ rloc' = [NoRLoc EXCEPT !.todo = Registered]
  /\ pc' = [pc EXCEPT ![RestTask] = "ls_topics"]
  /\ UNCHANGED <<topics, ntopics, tmW, topicData, muW, muR, subIdent, chanVars,
                 sockVars, ctxDone, cpc, ctarget, loc, hloc, wmsg, failVars, histVars>>

\* t.mu.RLock(); len(t.subscribers); t.mu.RUnlock() of the next topic
ListTopicsNext(o) ==
  /\ At(RestTask, "ls_topics")
  /\ o \in rloc.todo
  /\ CanRLock(muW[o])
  /\ rloc' = [rloc EXCEPT !.todo = @ \ {o}]
  /\ UNCHANGED <<regVars, tmW, topicData, muW, muR, subIdent, chanVars, sockVars,
                 ctxDone, pc, cpc, ctarget, loc, hloc, wmsg, failVars, histVars>>

\* the range over tm.topics is over: return out, the deferred tm.mu.RUnlock()
ListTopicsDone ==
  /\ At(RestTask, "ls_topics")
  /\ rloc.todo = {}
  /\ tmR' = tmR \ {RestTask}
  /\ rloc' = NoRLoc
  /\ restResult' = "listed"
  /\ pc' = [pc EXCEPT ![RestTask] = "idle"]
  /\ UNCHANGED <<topics, ntopics, tmW, topicData, muW, muR, subIdent, chanVars,
                 sockVars, ctxDone, cpc, ctarget, loc, hloc, wmsg, failVars, nmsgs,
                 appended, enq, written, drained, errFrame>>

\* CloseAllGracefully: tm.mu.RLock(); defer tm.mu.RUnlock(); for _, t := range tm.topics
GracefulStart ==
  /\ At(ShutTask, "idle")
  /\ CanRLock(tmW)
  /\ tmR' = tmR \cup {ShutTask}
  /\ hloc' = [NoHLoc EXCEPT !.todo = Registered]
  /\ pc' = [pc EXCEPT ![ShutTask] = "g_topics"]
  /\ UNCHANGED <<topics, ntopics, tmW, topicData, muW, muR, subIdent, chanVars,
                 sockVars, ctxDone, cpc, ctarget, loc, rloc, wmsg, failVars, histVars>>

\* t.mu.RLock() of the next topic
GracefulTopic(o) ==
  /\ At(ShutTask, "g_topics")
  /\ o \in hloc.todo
  /\ CanRLock(muW[o])
  /\ muR' = [muR EXCEPT ![o] = @ \cup {ShutTask}]
  /\ hloc' = [hloc EXCEPT !.todo = @ \ {o}, !.t = o, !.visited = {}]
  /\ pc' = [pc EXCEPT ![ShutTask] = "g_subs"]
  /\ UNCHANGED <<regVars, tmW, topicData, muW, subIdent, chanVars, sockVars, ctxDone,
                 cpc, ctarget, loc, rloc, wmsg, failVars, histVars>>

\* Subscriber.CloseGracefully: close(s.closed) // signal stop
CloseGracefully(c) ==
  LET i == subscribers[hloc.t][c] IN
  /\ At(ShutTask, "g_subs")
  /\ c \in Keys(hloc.t) \ hloc.visited
  /\ IF closed[i]
       THEN /\ Panic(ShutTask, "close of closed channel")
            /\ UNCHANGED <<closed, hloc>>
       ELSE /\ closed' = [closed EXCEPT ![i] = TRUE]
            /\ hloc' = [hloc EXCEPT !.visited = @ \cup {c}, !.cur = i]
            /\ pc' = [pc EXCEPT ![ShutTask] = "g_drain"]
            /\ UNCHANGED <<cpc, ctarget, ctxDone, muR, tmW, failVars>>
  /\ UNCHANGED <<regVars, topicData, muW, subIdent, send, sendClosed, sockVars,
                 loc, rloc, wmsg, histVars>>

\* for { select { case <-s.send: if time.Now().After(drainUntil) { return }
\*                default: return } }
GracefulDrain(timeout) ==
  LET i == hloc.cur IN
  /\ At(ShutTask, "g_drain")
  /\ IF send[i] # <<>>
       THEN /\ send' = [send EXCEPT ![i] = Tail(@)]
            /\ drained' = [drained EXCEPT ![i] = TRUE]
            /\ pc' = [pc EXCEPT ![ShutTask] = IF timeout THEN "g_subs" ELSE "g_drain"]
       ELSE /\ pc' = [pc EXCEPT ![ShutTask] = "g_subs"]
            /\ UNCHANGED <<send, drained>>
  /\ hloc' = [hloc EXCEPT !.cur = IF pc'[ShutTask] = "g_subs" THEN NoSub ELSE @]
  /\ UNCHANGED <<regVars, tmW, topicData, muW, muR, subIdent, sendClosed, closed,
                 sockVars, ctxDone, cpc, ctarget, loc, rloc, wmsg, failVars, nmsgs,
                 appended, enq, written, errFrame, restResult>>

\* the range over t.subscribers is over: t.mu.RUnlock()
GracefulTopicDone ==
  /\ At(ShutTask, "g_subs")
  /\ Keys(hloc.t) \ hloc.visited = {}
  /\ muR' = [muR EXCEPT ![hloc.t] = @ \ {ShutTask}]
  /\ hloc' = [hloc EXCEPT !.t = NoTopic, !.visited = {}]
  /\ pc' = [pc EXCEPT ![ShutTask] = "g_topics"]
  /\ UNCHANGED <<regVars, tmW, topicData, muW, subIdent, chanVars, sockVars, ctxDone,
                 cpc, ctarget, loc, rloc, wmsg, failVars, histVars>>

\* the range over tm.topics is over: the deferred tm.mu.RUnlock()
GracefulDone ==
  /\ At(ShutTask, "g_topics")
  /\ hloc.todo = {}
  /\ tmR' = tmR \ {ShutTask}
  /\ pc' = [pc EXCEPT ![ShutTask] = "g_done"]
  /\ UNCHANGED <<topics, ntopics, tmW, topicData, muW, muR, subIdent, chanVars,
                 sockVars, ctxDone, cpc, ctarget, locals, failVars, histVars>>

\* CloseAll, the hard close after the drain deadline: tm.mu.RLock(); defer RUnlock
CloseAllStart ==
  /\ At(ShutTask, "g_done")
  /\ CanRLock(tmW)
  /\ tmR' = tmR \cup {ShutTask}
  /\ hloc' = [NoHLoc EXCEPT !.todo = Registered]
  /\ pc' = [pc EXCEPT ![ShutTask] = "h_topics"]
  /\ UNCHANGED <<topics, ntopics, tmW, topicData, muW, muR, subIdent, chanVars,
                 sockVars, ctxDone, cpc, ctarget, loc, rloc, wmsg, failVars, histVars>>

\* t.mu.RLock() of the next topic
CloseAllTopic(o) ==
  /\ At(ShutTask, "h_topics")
  /\ o \in hloc.todo
  /\ CanRLock(muW[o])
  /\ muR' = [muR EXCEPT ![o] = @ \cup {ShutTask}]
  /\ hloc' = [hloc EXCEPT !.todo = @ \ {o}, !.t = o, !.visited = {}]
  /\ pc' = [pc EXCEPT ![ShutTask] = "h_subs"]
  /\ UNCHANGED <<regVars, tmW, topicData, muW, subIdent, chanVars, sockVars, ctxDone,
                 cpc, ctarget, loc, rloc, wmsg, failVars, histVars>>

\* for _, s := range t.subscribers { s.Close() }
CloseAllNext(c) ==
  /\ At(ShutTask, "h_subs")
  /\ c \in Keys(hloc.t) \ hloc.visited
  /\ hloc' = [hloc EXCEPT !.visited = @ \cup {c}]
  /\ CallClose(ShutTask, subscribers[hloc.t][c], "h_subs")
  /\ UNCHANGED <<regVars, tmW, topicData, muW, muR, subIdent, chanVars, sockVars,
                 ctxDone, loc, rloc, wmsg, failVars, histVars>>

\* t.mu.RUnlock()
CloseAllTopicDone ==
  /\ At(ShutTask, "h_subs")
  /\ Keys(hloc.t) \ hloc.visited = {}
  /\ muR' = [muR EXCEPT ![hloc.t] = @ \ {ShutTask}]
  /\ hloc' = [hloc EXCEPT !.t = NoTopic, !.visited = {}]
  /\ pc' = [pc EXCEPT ![ShutTask] = "h_topics"]
  /\ UNCHANGED <<regVars, tmW, topicData, muW, subIdent, chanVars, sockVars, ctxDone,
                 cpc, ctarget, loc, rloc, wmsg, failVars, histVars>>

\* the deferred tm.mu.RUnlock()
CloseAllDone ==
  /\ At(ShutTask, "h_topics")
  /\ hloc.todo = {}
  /\ tmR' = tmR \ {ShutTask}
  /\ pc' = [pc EXCEPT ![ShutTask] = "done"]
  /\ UNCHANGED <<topics, ntopics, tmW, topicData, muW, muR, subIdent, chanVars,
                 sockVars, ctxDone, cpc, ctarget, locals, failVars, histVars>>

\* ------------------------------------------------------- specification
Close(k) == CloseSignal(k) \/ CloseFinish(k)

\* case "subscribe" with last_n = 0: no replay
Subscribe(s) ==
  \/ \E n \in TopicNames, c \in ClientIds : ReadSubscribe(s, n, c, 0)
  \/ RegisterLock(s) \/ RegisterAssign(s)

\* case "subscribe" with last_n > 0: registration, then replay
SubscribeReplay(s, c) ==
  \/ \E n \in TopicNames, ln \in LastNs \ {0} : ReadSubscribe(s, n, c, ln)
  \/ RegisterLock(s) \/ RegisterAssign(s)
  \/ ReplaySnapshot(s) \/ ReplayLoop(s) \/ CloseWithError(s)

\* requests that fail validation
BadRequests(s) ==
  \E ty \in ReqTypes, n \in ReqTopics, c \in ReqClientIds, hasMsg \in BOOLEAN :
    ReadBadRequest(s, ty, n, c, hasMsg)

\* case "unsubscribe"
Unsubscribe(s) ==
  \/ \E n \in TopicNames, c \in ClientIds : ReadUnsubscribe(s, n, c)
  \/ UnsubscribeLock(s) \/ UnsubscribeDelete(s)

\* case "publish"
publishToTopic(s) ==
  \/ \E n \in TopicNames : ReadPublish(s, n)
  \/ PublishRLock(s)
  \/ \E c \in ClientIds : FanOutNext(s, c)
  \/ EvictWrite(s) \/ EvictDelete(s)
  \/ CountRead(s) \/ CountWrite(s)

\* the eviction's map write races with another holder of the topic's read lock
MapRace == \E s \in Sess : EvictDeleteRace(s)

subscriberWriteLoop(i) == WriterDone(i) \/ WriterRecv(i) \/ WriterWrite(i)

DeleteTopicSteps ==
  \/ \E n \in TopicNames : DeleteTopic(n)
  \/ DeleteLock
  \/ \E c \in ClientIds : DeleteCloseNext(c)
  \/ DeleteFinish

ListTopics ==
  \/ ListTopicsStart
  \/ \E o \in TopicObjs : ListTopicsNext(o)
  \/ ListTopicsDone

CloseAllGracefully ==
  \/ GracefulStart
  \/ \E o \in TopicObjs : GracefulTopic(o)
  \/ \E c \in ClientIds : CloseGracefully(c)
  \/ \E timeout \in BOOLEAN : GracefulDrain(timeout)
  \/ GracefulTopicDone \/ GracefulDone

CloseAll ==
  \/ CloseAllStart
  \/ \E o \in TopicObjs : CloseAllTopic(o)
  \/ \E c \in ClientIds : CloseAllNext(c)
  \/ CloseAllTopicDone \/ CloseAllDone

\* what every scenario contains: topic creation, the replies and the exit of
\* the sessions, the writer loops, and the calls of Close in progress
Fabric ==
  \/ \E n \in TopicNames : CreateTopic(n)
  \/ \E s \in Sess : Reply(s) \/ SessionExit(s)
  \/ \E i \in Subs : subscriberWriteLoop(i)
  \/ \E k \in Tasks : Close(k)

\* every operation, every session
Next ==
  \/ Fabric
  \/ \E s \in Sess : Subscribe(s) \/ Unsubscribe(s) \/ publishToTopic(s)
  \/ MapRace
  \/ \E s \in Sess, c \in ClientIds : SubscribeReplay(s, c)
  \/ \E s \in Sess : BadRequests(s)
  \/ \E s \in Sess : PeerStall(s) \/ PeerDisconnect(s)
  \/ DeleteTopicSteps
  \/ ListTopics
  \/ CloseAllGracefully
  \/ CloseAll

Spec == Init /\ [][Next]_vars

\* The scenarios below are sub-compositions of Next that TLC explores in full.
\* Session 1 subscribes; both sessions publish; the client of session 1 may drop.
NextFanOut ==
  \/ Fabric
  \/ Subscribe(1)
  \/ \E s \in Sess : publishToTopic(s)
  \/ MapRace
  \/ PeerDisconnect(1)

SpecFanOut == Init /\ [][NextFanOut]_vars


\* Session 1 subscribes and its client may stop reading; session 2 publishes.
NextStall ==
  \/ Fabric
  \/ Subscribe(1)
  \/ publishToTopic(2)
  \/ PeerStall(1)

SpecStall == Init /\ [][NextStall]_vars

\* Session 1 subscribes with a replay of the history; session 2 publishes.
NextReplay ==
  \/ Fabric
  \/ SubscribeReplay(1, "c1")
  \/ publishToTopic(2)

SpecReplay == Init /\ [][NextReplay]_vars

\* Both sessions subscribe and session 1 unsubscribes; session 2 publishes.
NextBinding ==
  \/ Fabric
  \/ \E s \in Sess : Subscribe(s)
  \/ Unsubscribe(1)
  \/ publishToTopic(2)

SpecBinding == Init /\ [][NextBinding]_vars

\* Session 1 subscribes, session 2 publishes, the process shuts down gracefully.
NextShutdown ==
  \/ Fabric
  \/ Subscribe(1)
  \/ publishToTopic(2)
  \/ MapRace
  \/ CloseAllGracefully

SpecShutdown == Init /\ [][NextShutdown]_vars

\* Session 1 subscribes and its client may drop; session 2 publishes; the
\* topic is deleted through the REST interface.
NextDelete ==
  \/ Fabric
  \/ Subscribe(1)
  \/ publishToTopic(2)
  \/ DeleteTopicSteps
  \/ PeerDisconnect(1)

SpecDelete == Init /\ [][NextDelete]_vars

\* Session 1 subscribes, session 2 publishes, the topic is deleted, and both
\* sessions also send requests that are rejected.
NextReject ==
  \/ Fabric
  \/ Subscribe(1)
  \/ publishToTopic(2)
  \/ DeleteTopicSteps
  \/ \E s \in Sess : BadRequests(s)

SpecReject == Init /\ [][NextReject]_vars

\* Session 1 subscribes and its client may drop; session 2 publishes; the REST
\* interface deletes the topic and lists the topics.
NextLocks ==
  \/ Fabric
  \/ Subscribe(1)
  \/ publishToTopic(2)
  \/ DeleteTopicSteps
  \/ ListTopics
  \/ PeerDisconnect(1)

SpecLocks == Init /\ [][NextLocks]_vars

\* The ring buffer on its own: any sequence of Adds to the buffer of Topic
\* object 1, and LastN(n) for any n taken at any point of it.
LastNRange == (0 - 1)..(RingSize + 2)

RingAdd(m) ==
  /\ Len(appended[1]) < MaxAdds
  /\ history' = [history EXCEPT ![1] = Add(@, m)]
  /\ appended' = [appended EXCEPT ![1] = Append(@, m)]
  /\ UNCHANGED <<regVars, tmW, subscribers, msgCount, muW, muR, subIdent, chanVars,
                 sockVars, ctxDone, pc, cpc, ctarget, locals, failVars, nmsgs, enq,
                 written, drained, errFrame, restResult>>

RingLastN(n) ==
  /\ loc' = [loc EXCEPT ![1].lastN = n, ![1].rq = LastN(history[1], n)]
  /\ UNCHANGED <<regVars, tmW, topicData, muW, muR, subIdent, chanVars, sockVars,
                 ctxDone, pc, cpc, ctarget, rloc, hloc, wmsg, failVars, histVars>>

NextRing ==
  \/ \E m \in Msgs : RingAdd(m)
  \/ \E n \in LastNRange : RingLastN(n)

SpecRing == Init /\ [][NextRing]_vars

\* ------------------------------------------------------------ properties
\* message m was enqueued to Subscriber i by a fan-out
Enqueued(i, m) == \E j \in 1..Len(enq[i]) : enq[i][j] = <<m, "live">>

\* Subscriber i is closed and out of the subscriber map of Topic o
Evicted(i, o) == closed[i] /\ i \notin Members(o)

\* a session's publishToTopic call has ended: the range is over and only the
\* counter update and the return remain, or a panic has unwound the call
PublishEnded(s) ==
  /\ loc[s].m # NoMsg
  /\ pc[SessTask(s)] \in {"pub_count", "panicked"}

\* C1: when a publishToTopic call ends, every Subscriber that was in the
\* topic's subscriber map when the call began has had the message enqueued
\* or has been evicted (out of the map and closed): nobody is skipped.
C1_FanOutComplete ==
  \A s \in Sess : PublishEnded(s) =>
    \A i \in loc[s].atStart : Enqueued(i, loc[s].m) \/ Evicted(i, loc[s].t)


\* C2: when a publishToTopic call returns, every Subscriber whose queue that
\* call found at capacity has had the SLOW_CONSUMER error frame attempted, has
\* its closed-signal fired and is out of the topic's subscriber map.
C2_EvictedBeforeReturn ==
  \A s \in Sess : pc[SessTask(s)] = "pub_count" =>
    \A i \in loc[s].full : errFrame[i] /\ Evicted(i, loc[s].t)

\* a publish is about to return after having found a queue at capacity
C2_Witness ==
  \E s \in Sess : pc[SessTask(s)] = "pub_count" /\ loc[s].full # {}


\* session s is inside the s.Close() call of a fan-out eviction, at its last step
EvictionCloses(s) ==
  /\ pc[SessTask(s)] = "pub_delete"
  /\ cpc[SessTask(s)] = "send"
  /\ cpc'[SessTask(s)] = "none"

\* C3: a SLOW_CONSUMER eviction touches the evicted Subscriber only: the step
\* that closes it leaves every other un-closed Subscriber un-closed with its
\* socket still usable, and leaves the publishing session's socket open.
C3_EvictionIsLocal ==
  [][\A s \in Sess : EvictionCloses(s) =>
       /\ \A j \in (1..nsubs) \ {ctarget[SessTask(s)]} :
            ~closed[j] => ~closed'[j] /\ connOpen'[subConn[j]] = connOpen[subConn[j]]
       /\ connOpen'[s] = connOpen[s]]_vars

\* C4: a publishToTopic call is never suspended by a Subscriber: no publisher
\* waits in the eviction's socket write for a client that does not read.
C4_PublisherNeverSuspended ==
  \A s \in Sess :
    pc[SessTask(s)] = "pub_evict_write" => ~WriteBlocks(subConn[loc[s].cur])


\* the messages enqueued to Subscriber i, in enqueue order
EnqMsgs(i) == [j \in 1..Len(enq[i]) |-> enq[i][j][1]]

IsPrefix(a, b) == Len(a) <= Len(b) /\ \A j \in 1..Len(a) : a[j] = b[j]

\* C5: the event frames a Subscriber's writer loop has written carry the
\* messages in enqueue order, without duplicate, reordering or gap: they are
\* a prefix of what was enqueued (only a tail may be missing).
C5_WrittenIsPrefix ==
  \A i \in Subs : IsPrefix(written[i], EnqMsgs(i))

\* position of message m in a sequence that holds it
Pos(seq, m) == CHOOSE p \in 1..Len(seq) : seq[p] = m

Holds(seq, m) == \E p \in 1..Len(seq) : seq[p] = m

\* C6: for every Subscriber, live messages are enqueued in the order in which
\* the publish calls appended them to the topic's ring buffer.
C6_LiveOrderIsAppendOrder ==
  \A i \in Subs, o \in TopicObjs :
    \A j, k \in 1..Len(enq[i]) :
      /\ j < k
      /\ enq[i][j][2] = "live" /\ enq[i][k][2] = "live"
      /\ Holds(appended[o], enq[i][j][1]) /\ Holds(appended[o], enq[i][k][1])
      => Pos(appended[o], enq[i][j][1]) < Pos(appended[o], enq[i][k][1])

\* C7: in what was enqueued to a Subscriber, no replayed message comes after
\* a live message that was appended to the ring buffer later than it.
C7_ReplayBeforeLaterLive ==
  \A i \in Subs, o \in TopicObjs :
    \A j, k \in 1..Len(enq[i]) :
      /\ j < k
      /\ enq[i][j][2] = "live" /\ enq[i][k][2] = "replay"
      /\ Holds(appended[o], enq[i][j][1]) /\ Holds(appended[o], enq[i][k][1])
      => Pos(appended[o], enq[i][j][1]) <= Pos(appended[o], enq[i][k][1])


\* C8: a topic holds at most one Subscriber per client_id, filed under its own
\* id; and whenever a binding of the subscriber map is replaced or removed,
\* the Subscriber that was bound has had its closed-signal fired before.
C8_OneBinding ==
  /\ [](\A o \in TopicObjs : \A c \in Keys(o) :
          /\ subId[subscribers[o][c]] = c
          /\ \A d \in Keys(o) : subscribers[o][d] = subscribers[o][c] => d = c)
  /\ [][\A o \in TopicObjs, c \in ClientIds :
          subscribers'[o][c] # subscribers[o][c] /\ subscribers[o][c] # NoSub
            => closed[subscribers[o][c]]]_vars

\* a second subscribe under the same client_id is about to replace a binding
C8_Witness ==
  \E s \in Sess :
    /\ At(SessTask(s), "sub_assign")
    /\ subscribers[loc[s].t][loc[s].cid] # NoSub
    /\ subscribers[loc[s].t][loc[s].cid] # loc[s].sub

\* C9: no call of Subscriber.Close fails, whichever tasks close the same
\* Subscriber: close(s.closed) never runs on a channel that is already closed.
C9_CloseNeverFails ==
  \A k \in Tasks : fault[k] # "close of closed channel"

\* C10: once a Subscriber's closed-signal has fired, no enqueue on its queue
\* succeeds any more, by live fan-out or by replay.
C10_NoEnqueueAfterClosed ==
  [][\A i \in Subs : closed[i] => enq'[i] = enq[i]]_vars


\* a publishToTopic call on Topic o is between its GetTopic and its return
PublishInFlight(o) ==
  \E s \in Sess :
    /\ loc[s].t = o
    /\ pc[SessTask(s)] \in {"pub_rlock", "pub_loop", "pub_evict_write", "pub_delete",
                            "pub_count"}

\* C11: whenever no publish on a topic is in flight (and none was cut short by
\* a panic), the topic's msgCount equals the number of publishes the topic has
\* accepted, which is the number of messages appended to its ring buffer.
C11_CountIsAccepted ==
  \A o \in TopicObjs :
    (~PublishInFlight(o) /\ \A k \in Tasks : fault[k] = "none")
      => msgCount[o] = Len(appended[o])


Min(a, b) == IF a < b THEN a ELSE b

\* the last n elements of seq
Suffix(seq, n) == SubSeq(seq, Len(seq) - n + 1, Len(seq))

\* C12: after any sequence of Adds m1..mk to a ring buffer of capacity N,
\* LastN(n) is empty for n <= 0 and otherwise holds the last min(n, N, k)
\* messages added, oldest first.
C12_LastNIsSuffix ==
  \A n \in LastNRange :
    LastN(history[1], n) =
      IF n <= 0 THEN <<>>
      ELSE Suffix(appended[1], Min(n, Min(RingSize, Len(appended[1]))))

\* the buffer has wrapped and LastN was taken for fewer messages than it holds
C12_Witness ==
  /\ Len(appended[1]) > RingSize
  /\ loc[1].lastN \in 1..(RingSize - 1)
  /\ loc[1].rq = LastN(history[1], loc[1].lastN)
  /\ Len(loc[1].rq) = loc[1].lastN


\* the DeleteTopic call in progress on a registered name ends with this step
DeleteEnds == pc[RestTask] \in {"del_lock", "del_loop"} /\ pc'[RestTask] = "idle"

\* C13: a DeleteTopic call on a registered name ends with the name out of the
\* registry and every Subscriber of the topic's map closed; a DeleteTopic on
\* an unregistered name answers not-found and changes nothing.
C13_DeleteRemovesAndCloses ==
  [][/\ DeleteEnds =>
          /\ topics'[rloc.n] = NoTopic
          /\ \A i \in Members(rloc.t) : closed'[i]
     /\ (restResult' = "not_found" /\ restResult # "not_found") =>
          UNCHANGED <<regVars, tmW, topicData, muW, muR, subIdent, chanVars, sockVars>>
    ]_vars

\* C14: a publish that looked its topic up before a DeleteTopic removed it
\* ends with an ack or with TOPIC_NOT_FOUND: it is never cut short by a panic.
C14_PublishSurvivesDelete ==
  \A s \in Sess :
    (loc[s].m # NoMsg /\ loc[s].t \notin Registered)
      => pc[SessTask(s)] # "panicked" /\ ~crashed


\* C15: after a session has ended, no topic's subscriber map still holds a
\* Subscriber that the session created.
C15_ExitUnregisters ==
  \A s \in Sess : pc[SessTask(s)] = "exited" =>
    \A o \in TopicObjs : \A i \in Members(o) : subConn[i] # s


IsError(frame) == frame \in {"error:BAD_REQUEST", "error:TOPIC_NOT_FOUND"}

\* the registry, the topics, the Subscribers and the sockets
BrokerState ==
  <<regVars, tmW, topicData, muW, muR, subIdent, chanVars, sockVars, ctxDone,
    nmsgs, appended, enq>>

\* C16: the step by which a session rejects a request (BAD_REQUEST or
\* TOPIC_NOT_FOUND) changes nothing of the registry, the topics, the
\* Subscribers or the sockets; the one error frame is then written, which
\* changes nothing either, and the session reads its next request.
C16_RejectChangesNothing ==
  [][\A s \in Sess :
       /\ (pc[SessTask(s)] = "idle" /\ pc'[SessTask(s)] = "reply"
             /\ IsError(loc'[s].reply)) => UNCHANGED BrokerState
       /\ (pc[SessTask(s)] = "reply" /\ IsError(loc[s].reply)
             /\ pc'[SessTask(s)] # "reply")
            => pc'[SessTask(s)] = "idle" /\ UNCHANGED BrokerState
    ]_vars

\* with a Subscriber registered, one session is about to write BAD_REQUEST
\* and the other TOPIC_NOT_FOUND
C16_Witness ==
  /\ nsubs > 0
  /\ \E s, r \in Sess :
       /\ pc[SessTask(s)] = "reply" /\ loc[s].reply = "error:BAD_REQUEST"
       /\ pc[SessTask(r)] = "reply" /\ loc[r].reply = "error:TOPIC_NOT_FOUND"


\* session s is inside the handling of an unsubscribe that found its topic
InUnsubscribe(s) == pc[SessTask(s)] \in {"unsub_lock", "unsub_delete"}

\* C17: an unsubscribe request that carries topic and client_id always ends
\* with an ack; then the topic has no Subscriber under that client_id and the
\* Subscriber it removed is closed; when there was none, nothing changes.
C17_UnsubscribeAcks ==
  [][\A s \in Sess : InUnsubscribe(s) =>
       LET k == SessTask(s)
           bound == subscribers[loc[s].t][loc[s].cid] IN
       /\ pc'[k] \in {"unsub_lock", "unsub_delete", "reply"}
       /\ pc'[k] = "reply" =>
            /\ loc'[s].reply = "ack"
            /\ subscribers'[loc[s].t][loc[s].cid] = NoSub
            /\ bound # NoSub => closed'[bound]
            /\ pc[k] = "unsub_lock" => UNCHANGED BrokerState
    ]_vars


\* session s writes the ack of a subscribe on a socket that is still open
AckGoesOut(s) ==
  /\ pc[SessTask(s)] = "reply" /\ pc'[SessTask(s)] = "idle"
  /\ loc[s].reply = "ack" /\ loc[s].sub # NoSub
  /\ connOpen[s]

\* C18: a subscribe whose replay found the new Subscriber's queue full sends
\* no ack, and its Subscriber is closed with the SLOW_CONSUMER error frame.
C18_OverflowSendsNoAck ==
  [][\A s \in Sess :
       /\ AckGoesOut(s) => loc[s].full = {}
       /\ (pc[SessTask(s)] = "reply" /\ loc[s].full # {})
            => closed[loc[s].sub] /\ errFrame[loc[s].sub]
    ]_vars


\* Subscriber i was asked to drain by CloseGracefully: its closed-signal has
\* fired without a call of Close, which would go on to close the queue
AskedToDrain(i) ==
  /\ closed[i] /\ ~sendClosed[i]
  /\ \A k \in Tasks : ~(cpc[k] = "send" /\ ctarget[k] = i)

\* C19: once CloseGracefully has asked a Subscriber to drain, no enqueue to
\* its queue succeeds any more.
C19_DrainStopsIntake ==
  [][\A i \in Subs : AskedToDrain(i) => enq'[i] = enq[i]]_vars

\* C20: a CloseAllGracefully call never aborts, and when it has finished the
\* range over a topic's subscriber map, every Subscriber in that map has its
\* closed-signal fired.
C20_GracefulReachesAll ==
  /\ [](fault[ShutTask] = "none")
  /\ [][(pc[ShutTask] = "g_subs" /\ pc'[ShutTask] = "g_topics")
          => \A i \in Members(hloc.t) : closed[i]]_vars


\* tasks that are reading, ranging over or about to write the subscriber map of
\* Topic object o: a publish inside its range, a subscribe or unsubscribe between
\* its lookup and its map write, DeleteTopic and the shutdown calls inside
\* their range
MapUsers(o) ==
  {SessTask(s) : s \in {x \in Sess :
      /\ loc[x].t = o
      /\ pc[SessTask(x)] \in {"pub_loop", "pub_evict_write", "pub_delete",
                              "sub_assign", "unsub_delete"}}}
  \cup {k \in {RestTask} : pc[k] = "del_loop" /\ rloc.t = o}
  \cup {k \in {ShutTask} : pc[k] \in {"g_subs", "g_drain", "h_subs"} /\ hloc.t = o}

\* C21: every insert into and delete from a topic's subscriber map happens with
\* exclusive access: at a step that changes the map, no second task is reading,
\* ranging over or writing the same map.
C21_MapMutationsSerialized ==
  [][\A o \in TopicObjs :
       subscribers'[o] # subscribers[o] => Cardinality(MapUsers(o)) <= 1]_vars


\* the Topic objects whose lock task k is waiting to take in write mode
WantsLock(k) ==
  IF cpc[k] # "none" THEN {}
  ELSE IF k[1] = "sess" /\ pc[k] \in {"sub_lock", "unsub_lock"} THEN {loc[k[2]].t}
  ELSE IF k = RestTask /\ pc[k] = "del_lock" THEN {rloc.t}
  ELSE {}

\* the Topic objects whose lock task k is waiting to take in read mode: the
\* topic of a publish, the topics a range over tm.topics still has to yield
WantsRLock(k) ==
  IF cpc[k] # "none" THEN {}
  ELSE IF k[1] = "sess" /\ pc[k] = "pub_rlock" THEN {loc[k[2]].t}
  ELSE IF k = RestTask /\ pc[k] = "ls_topics" THEN rloc.todo
  ELSE IF k = ShutTask /\ pc[k] \in {"g_topics", "h_topics"} THEN hloc.todo
  ELSE {}

\* task k is between the Lock and the Unlock of Topic object o
InWriteSection(k, o) ==
  \/ k[1] = "sess" /\ pc[k] \in {"sub_assign", "unsub_delete"} /\ loc[k[2]].t = o
  \/ k = RestTask /\ pc[k] = "del_loop" /\ rloc.t = o

\* the write lock of Topic object o is held and no task will release it
Leaked(o) == muW[o] # NoTask /\ ~InWriteSection(muW[o], o)

\* every task of D waits for a topic lock that is leaked or held by a task of D:
\* none of them ever gets its lock
WaitForever(D) ==
  \A k \in D :
    /\ WantsLock(k) \cup WantsRLock(k) # {}
    /\ \A o \in WantsLock(k) :
         Leaked(o) \/ (({muW[o]} \cup muR[o]) \cap D) # {}
    /\ \A o \in WantsRLock(k) : Leaked(o) \/ muW[o] \in D

\* C22: while the process runs, no set of tasks waits forever for the registry
\* lock or a topic lock: every lock a task waits for is held by a task that is
\* going to release it.
C22_NoLockWaitForever ==
  ~crashed => \A D \in SUBSET Tasks : D # {} => ~WaitForever(D)


\* C23: while the process runs and no task holds a registered topic's lock,
\* every Subscriber in that topic's subscriber map has a closed-signal that has
\* not fired and an open queue.
C23_NoClosedSubscriberRegistered ==
  ~crashed =>
    \A o \in Registered :
      (muW[o] = NoTask /\ muR[o] = {}) =>
        \A i \in Members(o) : ~closed[i] /\ ~sendClosed[i]

====
